---------------------------- MODULE Spec2Model ----------------------------
(***************************************************************************)
(* The 2048 board engine (core2048::Game) as a state machine.              *)
(*                                                                         *)
(* game is the engine under study.  twin is a second engine, constructed   *)
(* and reset with the same seeds and given the same applyMove calls for as *)
(* long as game is not given loadState, as the two engines of the golden-  *)
(* sequence test.  The other variables record the last call.               *)
(***************************************************************************)
EXTENDS Integers, Sequences, FiniteSets, TLC

VARIABLES
    call,        \* the engine under study as its last call left it:
                 \*   game:   its fields [grid_, score_, rng_, seed_]
                 \*   result: the MoveResult of its last applyMove
                 \*   mid:    its grid in that applyMove once the four lines are written,
                 \*           before the spawn
    twinCall,    \* the same for the second engine
    pre,         \* game at entry of its last applyMove (game itself after reset / loadState)
    op,          \* the last call: [name, dir, spawnOnMove, seed]
    moves,       \* applyMove calls since the last reset or loadState
    loaded,      \* TRUE when game was given loadState since its last reset
    over,        \* what isGameOver() of game returns in this state
    store,       \* the leaderboard store and its score file:
                 \*   entries_:   the field of ScoreManager
                 \*   file:       the file at scoreFilePath_
                 \*   inserted:   the entries given to addScore, in leaderboard order
                 \*   sinceEmpty: TRUE while the store was given nothing but addScore
                 \*   saved:      <<entries_>> as the last save wrote it to the file
                 \*   op, best:   the last call and what bestScore() returns
    sampler,     \* a generator given to nextBounded, and the last call's result
    app          \* the application: config (the RunConfig of main), scene, open (the
                 \* window), finalScorePersisted and bestScore of app::run, the
                 \* session's playerName, the playing scene's moveAnimationActive and
                 \* menuOpen, the last scene command, and recorded, the number of
                 \* addScore calls since the game was started (the sound settings,
                 \* which ToggleSound changes, are left out)

gameVars == <<call, twinCall, pre, op, moves, loaded, over>>

vars == <<call, twinCall, pre, op, moves, loaded, over, store, sampler, app>>

game == call.game

result == call.result

mid == call.mid

twin == twinCall.game

twinResult == twinCall.result

---------------------------------------------------------------------------
\* Program constants and the bounds of the model

kGridSize == 4

\* loadState is given lines of the tiles 2^1 .. 2^MaxExp
MaxExp == 2

\* reset is given the seeds 0 .. MaxSeed
MaxSeed == 2

\* applyMove calls explored after a reset
MaxMoves == 3

\* applyMove calls explored after a loadState
MaxLoadedMoves == 1

\* word width of the modelled generator (std::mt19937 has 32 bits)
RngBits == 5

Idx == 0 .. (kGridSize - 1)

Directions == {"Up", "Down", "Left", "Right"}

Seeds == 0 .. MaxSeed

RECURSIVE Pow2(_)
Pow2(e) == IF e = 0 THEN 1 ELSE 2 * Pow2(e - 1)

---------------------------------------------------------------------------
\* The random generator and the bounded sampler

\* range: the size of the generator's output space
RngRange == Pow2(RngBits)

\* rng_.seed(seed_): the state a seed puts the generator in
RngSeed(seed) == (7 * seed + 7) % RngRange

\* one call rng(): a full-period generator; the state is the last raw value
RngStep(s) == (5 * s + 3) % RngRange

\* do { value = rng(); } while (value >= rejectionLimit): the accepted raw value
RECURSIVE DrawLoop(_, _)
DrawLoop(s, rejectionLimit) ==
    LET value == RngStep(s)
    IN  IF value >= rejectionLimit THEN DrawLoop(value, rejectionLimit) ELSE value

\* Faulty variant of nextBounded: the first raw value is taken, the redraw loop is
\* missing.
nextBoundedNoRedraw(rng, upperExclusive) ==
    IF upperExclusive = 0
    THEN [value |-> 0, rng |-> rng]
    ELSE LET bucketSize == RngRange \div upperExclusive
             value == RngStep(rng)
         IN  [value |-> value \div bucketSize, rng |-> value]

\* Faulty variant of nextBounded: the classic raw mod n, nothing redrawn.
nextBoundedModulo(rng, upperExclusive) ==
    IF upperExclusive = 0
    THEN [value |-> 0, rng |-> rng]
    ELSE LET value == RngStep(rng)
         IN  [value |-> value % upperExclusive, rng |-> value]

\* nextBounded(rng, upperExclusive): the value returned and the generator after the call
nextBounded(rng, upperExclusive) ==
    IF upperExclusive = 0
    THEN [value |-> 0, rng |-> rng]
    ELSE LET bucketSize == RngRange \div upperExclusive
             rejectionLimit == bucketSize * upperExclusive
             value == DrawLoop(rng, rejectionLimit)
         IN  [value |-> value \div bucketSize, rng |-> value]

---------------------------------------------------------------------------
\* Grids and lines

EmptyLine == [c \in Idx |-> 0]

EmptyGrid == [r \in Idx |-> EmptyLine]

\* std::optional<SpawnedTile>: <<>> is nullopt, <<t>> holds the tile t
NoTile == <<>>

\* MoveResult{}
NoResult == [moved |-> FALSE, scoreDelta |-> 0, spawnedTile |-> NoTile]

\* compact: the non-zero values of the line, in order
Compact(line) ==
    SelectSeq([i \in 1 .. kGridSize |-> line[i - 1]], LAMBDA v : v # 0)

\* Faulty variant of MergeLoop: the merged tile keeps the value of its sources
\* (mergedValue = compact[i]).
RECURSIVE MergeLoopNotDoubled(_, _, _)
MergeLoopNotDoubled(compact, i, acc) ==
    IF i >= Len(compact)
    THEN acc
    ELSE IF i + 1 < Len(compact) /\ compact[i + 1] = compact[i + 2]
         THEN LET mergedValue == compact[i + 1]
              IN  MergeLoopNotDoubled(compact, i + 2,
                            [values |-> [acc.values EXCEPT ![acc.writeIndex] = mergedValue],
                             writeIndex |-> acc.writeIndex + 1,
                             scoreDelta |-> acc.scoreDelta + mergedValue])
         ELSE MergeLoopNotDoubled(compact, i + 1,
                        [values |-> [acc.values EXCEPT ![acc.writeIndex] = compact[i + 1]],
                         writeIndex |-> acc.writeIndex + 1,
                         scoreDelta |-> acc.scoreDelta])

\* Faulty variant of MergeLoop: the merged tile takes the place of its second source
\* and the scan goes on from it, so that it can merge again.
RECURSIVE MergeLoopCascade(_, _, _)
MergeLoopCascade(compact, i, acc) ==
    IF i >= Len(compact)
    THEN acc
    ELSE IF i + 1 < Len(compact) /\ compact[i + 1] = compact[i + 2]
         THEN LET mergedValue == compact[i + 1] * 2
              IN  MergeLoopCascade([compact EXCEPT ![i + 2] = mergedValue], i + 1,
                                   [acc EXCEPT !.scoreDelta = @ + mergedValue])
         ELSE MergeLoopCascade(compact, i + 1,
                        [values |-> [acc.values EXCEPT ![acc.writeIndex] = compact[i + 1]],
                         writeIndex |-> acc.writeIndex + 1,
                         scoreDelta |-> acc.scoreDelta])

\* Faulty variant of MergeLoop: mergedValue = compact[i] + 2.
RECURSIVE MergeLoopPlusTwo(_, _, _)
MergeLoopPlusTwo(compact, i, acc) ==
    IF i >= Len(compact)
    THEN acc
    ELSE IF i + 1 < Len(compact) /\ compact[i + 1] = compact[i + 2]
         THEN LET mergedValue == compact[i + 1] + 2
              IN  MergeLoopPlusTwo(compact, i + 2,
                            [values |-> [acc.values EXCEPT ![acc.writeIndex] = mergedValue],
                             writeIndex |-> acc.writeIndex + 1,
                             scoreDelta |-> acc.scoreDelta + mergedValue])
         ELSE MergeLoopPlusTwo(compact, i + 1,
                        [values |-> [acc.values EXCEPT ![acc.writeIndex] = compact[i + 1]],
                         writeIndex |-> acc.writeIndex + 1,
                         scoreDelta |-> acc.scoreDelta])

\* the merge loop of slideAndMergeLine from index i (0-based) of compact;
\* acc is [values, writeIndex, scoreDelta]
RECURSIVE MergeLoop(_, _, _)
MergeLoop(compact, i, acc) ==
    IF i >= Len(compact)
    THEN acc
    ELSE IF i + 1 < Len(compact) /\ compact[i + 1] = compact[i + 2]
         THEN LET mergedValue == compact[i + 1] * 2
              IN  MergeLoop(compact, i + 2,
                            [values |-> [acc.values EXCEPT ![acc.writeIndex] = mergedValue],
                             writeIndex |-> acc.writeIndex + 1,
                             scoreDelta |-> acc.scoreDelta + mergedValue])
         ELSE MergeLoop(compact, i + 1,
                        [values |-> [acc.values EXCEPT ![acc.writeIndex] = compact[i + 1]],
                         writeIndex |-> acc.writeIndex + 1,
                         scoreDelta |-> acc.scoreDelta])

\* Faulty variant of slideAndMergeLine: a line counts as moved only when it merged.
slideAndMergeLineMovedOnMerge(line) ==
    LET r == MergeLoop(Compact(line), 0,
                       [values |-> EmptyLine, writeIndex |-> 0, scoreDelta |-> 0])
    IN  [values |-> r.values, moved |-> r.scoreDelta > 0, scoreDelta |-> r.scoreDelta]

\* Game::slideAndMergeLine: the LineResult [values, moved, scoreDelta]
slideAndMergeLine(line) ==
    LET r == MergeLoop(Compact(line), 0,
                       [values |-> EmptyLine, writeIndex |-> 0, scoreDelta |-> 0])
    IN  [values |-> r.values, moved |-> r.values # line, scoreDelta |-> r.scoreDelta]

\* Faulty variant of applyToRow: a line read in reverse is written back forwards.
applyToRowWriteForward(st, row, reverse) ==
    LET line == [c \in Idx |->
                    IF reverse THEN st.grid[row][kGridSize - 1 - c] ELSE st.grid[row][c]]
        lineResult == slideAndMergeLine(line)
    IN  [grid |-> [st.grid EXCEPT ![row] = lineResult.values],
         moved |-> st.moved \/ lineResult.moved,
         scoreDelta |-> st.scoreDelta + lineResult.scoreDelta]

\* the closure applyToRow of applyMove; st is [grid, moved, scoreDelta]
applyToRow(st, row, reverse) ==
    LET line == [c \in Idx |->
                    IF reverse THEN st.grid[row][kGridSize - 1 - c] ELSE st.grid[row][c]]
        lineResult == slideAndMergeLine(line)
        written == [c \in Idx |->
                       IF reverse THEN lineResult.values[kGridSize - 1 - c]
                                  ELSE lineResult.values[c]]
    IN  [grid |-> [st.grid EXCEPT ![row] = written],
         moved |-> st.moved \/ lineResult.moved,
         scoreDelta |-> st.scoreDelta + lineResult.scoreDelta]

\* Faulty variant of applyToCol: a line read in reverse is written back forwards.
applyToColWriteForward(st, col, reverse) ==
    LET line == [r \in Idx |->
                    IF reverse THEN st.grid[kGridSize - 1 - r][col] ELSE st.grid[r][col]]
        lineResult == slideAndMergeLine(line)
    IN  [grid |-> [r \in Idx |-> [st.grid[r] EXCEPT ![col] = lineResult.values[r]]],
         moved |-> st.moved \/ lineResult.moved,
         scoreDelta |-> st.scoreDelta + lineResult.scoreDelta]

\* the closure applyToCol of applyMove
applyToCol(st, col, reverse) ==
    LET line == [r \in Idx |->
                    IF reverse THEN st.grid[kGridSize - 1 - r][col] ELSE st.grid[r][col]]
        lineResult == slideAndMergeLine(line)
        written == [r \in Idx |->
                       IF reverse THEN lineResult.values[kGridSize - 1 - r]
                                  ELSE lineResult.values[r]]
    IN  [grid |-> [r \in Idx |-> [st.grid[r] EXCEPT ![col] = written[r]]],
         moved |-> st.moved \/ lineResult.moved,
         scoreDelta |-> st.scoreDelta + lineResult.scoreDelta]

\* for (int r = 0; r < kGridSize; ++r) applyToRow(r, reverse)
RECURSIVE RowLoop(_, _, _)
RowLoop(st, r, reverse) ==
    IF r >= kGridSize THEN st ELSE RowLoop(applyToRow(st, r, reverse), r + 1, reverse)

\* for (int c = 0; c < kGridSize; ++c) applyToCol(c, reverse)
RECURSIVE ColLoop(_, _, _)
ColLoop(st, c, reverse) ==
    IF c >= kGridSize THEN st ELSE ColLoop(applyToCol(st, c, reverse), c + 1, reverse)

\* the switch of applyMove: the four lines of the direction, slid and merged
SlideGrid(grid, dir) ==
    LET st == [grid |-> grid, moved |-> FALSE, scoreDelta |-> 0]
    IN  CASE dir = "Left"  -> RowLoop(st, 0, FALSE)
          [] dir = "Right" -> RowLoop(st, 0, TRUE)
          [] dir = "Up"    -> ColLoop(st, 0, FALSE)
          [] dir = "Down"  -> ColLoop(st, 0, TRUE)

\* emptyCells: the empty cells <<r, c>> in row-major order
EmptyCells(grid) ==
    SelectSeq([k \in 1 .. (kGridSize * kGridSize) |->
                  <<(k - 1) \div kGridSize, (k - 1) % kGridSize>>],
              LAMBDA p : grid[p[1]][p[2]] = 0)

\* Faulty variant of spawnTile: the last empty cell is never filled
\* (emptyCells.size() <= 1 in place of emptyCells.empty()).
spawnTileNeedsTwo(e) ==
    LET emptyCells == EmptyCells(e.grid_)
    IN  IF Len(emptyCells) <= 1
        THEN [game |-> e, tile |-> NoTile]
        ELSE LET cell == nextBounded(e.rng_, Len(emptyCells))
                 row == emptyCells[cell.value + 1][1]
                 col == emptyCells[cell.value + 1][2]
                 draw == nextBounded(cell.rng, 10)
                 tileValue == IF draw.value = 0 THEN 4 ELSE 2
             IN  [game |-> [e EXCEPT !.grid_[row][col] = tileValue, !.rng_ = draw.rng],
                  tile |-> <<[row |-> row, col |-> col, value |-> tileValue]>>]

\* Faulty variant of spawnTile: the tile returned has row and column exchanged.
spawnTileTransposed(e) ==
    LET emptyCells == EmptyCells(e.grid_)
    IN  IF Len(emptyCells) = 0
        THEN [game |-> e, tile |-> NoTile]
        ELSE LET cell == nextBounded(e.rng_, Len(emptyCells))
                 row == emptyCells[cell.value + 1][1]
                 col == emptyCells[cell.value + 1][2]
                 draw == nextBounded(cell.rng, 10)
                 tileValue == IF draw.value = 0 THEN 4 ELSE 2
             IN  [game |-> [e EXCEPT !.grid_[row][col] = tileValue, !.rng_ = draw.rng],
                  tile |-> <<[row |-> col, col |-> row, value |-> tileValue]>>]

\* Faulty variant of spawnTile: the tile value is drawn before the cell.
spawnTileValueFirst(e) ==
    LET emptyCells == EmptyCells(e.grid_)
    IN  IF Len(emptyCells) = 0
        THEN [game |-> e, tile |-> NoTile]
        ELSE LET draw == nextBounded(e.rng_, 10)
                 cell == nextBounded(draw.rng, Len(emptyCells))
                 row == emptyCells[cell.value + 1][1]
                 col == emptyCells[cell.value + 1][2]
                 tileValue == IF draw.value = 0 THEN 4 ELSE 2
             IN  [game |-> [e EXCEPT !.grid_[row][col] = tileValue, !.rng_ = cell.rng],
                  tile |-> <<[row |-> row, col |-> col, value |-> tileValue]>>]

\* Game::spawnTile on engine e: the engine after the call and the tile returned
spawnTile(e) ==
    LET emptyCells == EmptyCells(e.grid_)
    IN  IF Len(emptyCells) = 0
        THEN [game |-> e, tile |-> NoTile]
        ELSE LET cell == nextBounded(e.rng_, Len(emptyCells))
                 row == emptyCells[cell.value + 1][1]
                 col == emptyCells[cell.value + 1][2]
                 draw == nextBounded(cell.rng, 10)
                 tileValue == IF draw.value = 0 THEN 4 ELSE 2
             IN  [game |-> [e EXCEPT !.grid_[row][col] = tileValue, !.rng_ = draw.rng],
                  tile |-> <<[row |-> row, col |-> col, value |-> tileValue]>>]

\* Faulty variant of reset: the generator is not seeded again.
resetNotSeeded(e, seed) ==
    LET cleared == [grid_ |-> EmptyGrid, score_ |-> 0, rng_ |-> e.rng_, seed_ |-> seed]
    IN  spawnTile(spawnTile(cleared).game).game

\* Faulty variant of reset: the grid is not cleared.
resetNotCleared(e, seed) ==
    LET kept == [grid_ |-> e.grid_, score_ |-> 0, rng_ |-> RngSeed(seed), seed_ |-> seed]
    IN  spawnTile(spawnTile(kept).game).game

\* Game::reset(seed) on engine e
reset(e, seed) ==
    LET cleared == [grid_ |-> EmptyGrid, score_ |-> 0, rng_ |-> RngSeed(seed), seed_ |-> seed]
    IN  spawnTile(spawnTile(cleared).game).game

\* Faulty variant of loadState: the generator is seeded again.
loadStateReseeds(e, grid, score) ==
    [e EXCEPT !.grid_ = grid, !.score_ = score, !.rng_ = RngSeed(e.seed_)]

\* Game::loadState(grid, score) on engine e
loadState(e, grid, score) == [e EXCEPT !.grid_ = grid, !.score_ = score]

\* Faulty variant of applyMove: the spawn does not wait for moved.
applyMoveSpawnAlways(e, dir, spawnOnMove) ==
    LET st == SlideGrid(e.grid_, dir)
        scored == [e EXCEPT !.grid_ = st.grid, !.score_ = @ + st.scoreDelta]
        sp == IF spawnOnMove THEN spawnTile(scored) ELSE [game |-> scored, tile |-> NoTile]
    IN  [game |-> sp.game,
         result |-> IF st.moved
                    THEN [moved |-> TRUE, scoreDelta |-> st.scoreDelta, spawnedTile |-> sp.tile]
                    ELSE NoResult,
         mid |-> st.grid]

\* Faulty variant of applyMove: score_ = scoreDelta instead of score_ += scoreDelta.
applyMoveScoreAssigned(e, dir, spawnOnMove) ==
    LET st == SlideGrid(e.grid_, dir)
        slid == [e EXCEPT !.grid_ = st.grid]
    IN  IF ~st.moved
        THEN [game |-> slid, result |-> NoResult, mid |-> st.grid]
        ELSE LET scored == [slid EXCEPT !.score_ = st.scoreDelta]
                 sp == IF spawnOnMove THEN spawnTile(scored)
                                      ELSE [game |-> scored, tile |-> NoTile]
             IN  [game |-> sp.game,
                  result |-> [moved |-> TRUE, scoreDelta |-> st.scoreDelta,
                              spawnedTile |-> sp.tile],
                  mid |-> st.grid]

\* Game::applyMove(dir, spawnOnMove) on engine e: the engine after the call, the
\* MoveResult, and the grid as the four lines left it
applyMove(e, dir, spawnOnMove) ==
    LET st == SlideGrid(e.grid_, dir)
        slid == [e EXCEPT !.grid_ = st.grid]
    IN  IF ~st.moved
        THEN [game |-> slid, result |-> NoResult, mid |-> st.grid]
        ELSE LET scored == [slid EXCEPT !.score_ = @ + st.scoreDelta]
                 sp == IF spawnOnMove THEN spawnTile(scored)
                                      ELSE [game |-> scored, tile |-> NoTile]
             IN  [game |-> sp.game,
                  result |-> [moved |-> TRUE, scoreDelta |-> st.scoreDelta,
                              spawnedTile |-> sp.tile],
                  mid |-> st.grid]

\* Faulty variant of isGameOver: the last pair of each row is not compared
\* (c < kGridSize - 2).
isGameOverShortRow(grid) ==
    /\ \A r \in Idx : \A c \in Idx : grid[r][c] # 0
    /\ \A r \in Idx : \A c \in Idx :
          /\ ~(c < kGridSize - 2 /\ grid[r][c] = grid[r][c + 1])
          /\ ~(r < kGridSize - 1 /\ grid[r][c] = grid[r + 1][c])

\* Faulty variant of isGameOver: a full board is taken for a lost one.
isGameOverWhenFull(grid) == \A r \in Idx : \A c \in Idx : grid[r][c] # 0

\* mirrorHorizontal of the unit tests
mirrorHorizontal(grid) == [r \in Idx |-> [c \in Idx |-> grid[r][kGridSize - 1 - c]]]

\* Game::isGameOver on grid
isGameOver(grid) ==
    /\ \A r \in Idx : \A c \in Idx : grid[r][c] # 0
    /\ \A r \in Idx : \A c \in Idx :
          /\ ~(c < kGridSize - 1 /\ grid[r][c] = grid[r][c + 1])
          /\ ~(r < kGridSize - 1 /\ grid[r][c] = grid[r + 1][c])

---------------------------------------------------------------------------
\* The grids given to loadState

\* 0 and the tiles 2^1 .. 2^MaxExp
CellVals == {0} \cup {Pow2(e) : e \in 1 .. MaxExp}

\* a line with the tile 1 = 1 << 0, which randomValidGrid of the unit tests draws too,
\* and a line whose cells are no powers of two
UnitLine == [c \in Idx |-> IF c < 2 THEN 1 ELSE IF c = 2 THEN 2 ELSE 0]

OddLine == [c \in Idx |-> IF c < 2 THEN 3 ELSE IF c = 2 THEN 6 ELSE 0]

Lines == [Idx -> CellVals] \cup {UnitLine, OddLine}

\* a full board without equal neighbours, of the tiles 2 and 4
DeadGrid == [r \in Idx |-> [c \in Idx |-> IF (r + c) % 2 = 0 THEN 2 ELSE 4]]

\* lines of two tiles above those of DeadGrid, full or with one empty cell
HighLines ==
    LET full == [Idx -> {Pow2(MaxExp + 1), Pow2(MaxExp + 2)}]
    IN  full \cup {[a EXCEPT ![k] = 0] : a \in full, k \in {0, kGridSize - 1}}

WithRow(grid, i, line) == [grid EXCEPT ![i] = line]

WithCol(grid, i, line) == [r \in Idx |-> [grid[r] EXCEPT ![i] = line[r]]]

\* the empty board with one row or column replaced by any line, the boards of four
\* equal rows, and the dead board with one row or column replaced by a line of
\* other tiles
LoadGrids ==
    {WithRow(EmptyGrid, i, a) : i \in Idx, a \in Lines}
    \cup {WithCol(EmptyGrid, i, a) : i \in Idx, a \in Lines}
    \cup {[r \in Idx |-> a] : a \in Lines}
    \cup {WithRow(DeadGrid, i, a) : i \in Idx, a \in HighLines}
    \cup {WithCol(DeadGrid, i, a) : i \in Idx, a \in HighLines}
    \cup {DeadGrid}

\* the score the fixtures of the unit tests load
LoadScore == 99

---------------------------------------------------------------------------
\* The leaderboard store (core2048::ScoreManager) and its score file

kMaxEntries == 5

\* the placeholder player name
Oyuncu == "Oyuncu"

\* A std::string that is compared (a timestamp) is the sequence of its characters,
\* each a number.  lhs > rhs of std::string: at the first place the two differ the
\* greater character decides; a proper prefix is the lesser string.
RECURSIVE StringGreater(_, _)
StringGreater(lhs, rhs) ==
    IF lhs = <<>> THEN FALSE
    ELSE IF rhs = <<>> THEN TRUE
    ELSE IF Head(lhs) # Head(rhs) THEN Head(lhs) > Head(rhs)
    ELSE StringGreater(Tail(lhs), Tail(rhs))

\* std::optional<std::string>
NoString == <<>>

\* Faulty variant of EntryBefore: equal scores are ordered by ascending timestamp.
EntryBeforeOldestFirst(lhs, rhs) ==
    IF lhs.score # rhs.score
    THEN lhs.score > rhs.score
    ELSE StringGreater(rhs.playedAtUtc, lhs.playedAtUtc)

\* the comparator of sortAndTrim: lhs is ordered before rhs
EntryBefore(lhs, rhs) ==
    IF lhs.score # rhs.score
    THEN lhs.score > rhs.score
    ELSE StringGreater(lhs.playedAtUtc, rhs.playedAtUtc)

\* Faulty variant of InsertStable: a sort that is not stable, an element is put
\* before the sorted elements that are not ordered before it.
RECURSIVE InsertBeforeEqual(_, _)
InsertBeforeEqual(sorted, e) ==
    IF sorted = <<>> THEN <<e>>
    ELSE IF ~EntryBefore(Head(sorted), e) THEN <<e>> \o sorted
    ELSE <<Head(sorted)>> \o InsertBeforeEqual(Tail(sorted), e)

\* std::stable_sort with that comparator: each element in turn is put behind the
\* sorted elements it is not ordered before
RECURSIVE InsertStable(_, _)
InsertStable(sorted, e) ==
    IF sorted = <<>> THEN <<e>>
    ELSE IF EntryBefore(e, Head(sorted)) THEN <<e>> \o sorted
    ELSE <<Head(sorted)>> \o InsertStable(Tail(sorted), e)

RECURSIVE StableSort(_, _)
StableSort(entries, sorted) ==
    IF entries = <<>> THEN sorted
    ELSE StableSort(Tail(entries), InsertStable(sorted, Head(entries)))

\* Faulty variant of sortAndTrim: the list is sorted and never cut.
sortAndTrimNoTrim(entries) == StableSort(entries, <<>>)

\* Faulty variant of sortAndTrim: the list is cut before it is sorted.
sortAndTrimCutFirst(entries) ==
    StableSort(IF Len(entries) > kMaxEntries THEN SubSeq(entries, 1, kMaxEntries)
                                             ELSE entries, <<>>)

\* ScoreManager::sortAndTrim: entries_ after the call
sortAndTrim(entries) ==
    LET sorted == StableSort(entries, <<>>)
    IN  IF Len(sorted) > kMaxEntries THEN SubSeq(sorted, 1, kMaxEntries) ELSE sorted

\* ScoreManager::addScore(score, playerName, playedAtUtc): entries_ after the call;
\* now is what currentUtcIso8601() returns when it is called
addScore(entries, score, playerName, playedAtUtc, now) ==
    LET entry == [score |-> score,
                  playedAtUtc |-> IF playedAtUtc = NoString THEN now ELSE playedAtUtc[1],
                  playerName |-> IF playerName = "" THEN Oyuncu ELSE playerName]
    IN  sortAndTrim(Append(entries, entry))

\* ScoreManager::topScores
topScores(entries) == entries

\* Faulty variant of bestScore: the score of the last entry.
bestScoreOfLast(entries) ==
    IF entries = <<>> THEN 0 ELSE entries[Len(entries)].score

\* ScoreManager::bestScore
bestScore(entries) ==
    IF entries = <<>> THEN 0 ELSE entries[1].score

\* A JSON value is [kind, val]: val is the number, the string, the sequence of the
\* items of an array, or the record of the members of an object.
JInteger(n) == [kind |-> "integer", val |-> n]

JFloat(n) == [kind |-> "float", val |-> n]

JString(s) == [kind |-> "string", val |-> s]

JArray(items) == [kind |-> "array", val |-> items]

JObject(members) == [kind |-> "object", val |-> members]

\* item.contains(key) && item[key] is of the kind
HasMember(item, key, kind) ==
    key \in DOMAIN item.val /\ item.val[key].kind = kind

\* Faulty variant of parseEntry: an entry without a player name is dropped.
parseEntryNameRequired(item) ==
    IF item.kind # "object" THEN <<>>
    ELSE IF ~HasMember(item, "score", "integer") THEN <<>>
    ELSE IF ~HasMember(item, "played_at", "string") THEN <<>>
    ELSE IF ~HasMember(item, "player_name", "string") THEN <<>>
    ELSE <<[score |-> item.val["score"].val,
            playedAtUtc |-> item.val["played_at"].val,
            playerName |-> IF item.val["player_name"].val # ""
                           THEN item.val["player_name"].val ELSE Oyuncu]>>

\* parseEntry(item): <<>> is std::nullopt, <<entry>> holds the entry
parseEntry(item) ==
    IF item.kind # "object" THEN <<>>
    ELSE IF ~HasMember(item, "score", "integer") THEN <<>>
    ELSE IF ~HasMember(item, "played_at", "string") THEN <<>>
    ELSE <<[score |-> item.val["score"].val,
            playedAtUtc |-> item.val["played_at"].val,
            playerName |-> IF /\ HasMember(item, "player_name", "string")
                              /\ item.val["player_name"].val # ""
                           THEN item.val["player_name"].val ELSE Oyuncu]>>

\* Faulty variant of toJson: the timestamp is written under the key "playedAt".
toJsonOtherKey(entry) ==
    JObject([score |-> JInteger(entry.score),
             playedAt |-> JString(entry.playedAtUtc),
             player_name |-> JString(entry.playerName)])

\* toJson(entry)
toJson(entry) ==
    JObject([score |-> JInteger(entry.score),
             played_at |-> JString(entry.playedAtUtc),
             player_name |-> JString(entry.playerName)])

\* The score file is [state, text]: state says whether std::filesystem::exists finds
\* it ("missing", "present"), fails ("error"), or finds a file that cannot be opened
\* ("closed"); text is the JSON value its text parses to, or Malformed.
Malformed == [kind |-> "malformed", val |-> 0]

NoFile == [state |-> "missing", text |-> Malformed]

FileOf(text) == [state |-> "present", text |-> text]

\* the entries parseEntry keeps of the items, in the order of the file
RECURSIVE ParseItems(_)
ParseItems(items) ==
    IF items = <<>> THEN <<>>
    ELSE parseEntry(Head(items)) \o ParseItems(Tail(items))

\* Faulty variant of load: entries_ is cleared only once the file is parsed.
loadKeepsOnFailure(entries, file) ==
    IF file.state = "missing" THEN [entries_ |-> entries, ok |-> TRUE]
    ELSE IF file.state # "present" THEN [entries_ |-> entries, ok |-> FALSE]
    ELSE IF file.text.kind = "malformed" THEN [entries_ |-> entries, ok |-> FALSE]
    ELSE IF \/ file.text.kind # "object"
            \/ ~HasMember(file.text, "scores", "array")
         THEN [entries_ |-> entries, ok |-> FALSE]
    ELSE [entries_ |-> sortAndTrim(ParseItems(file.text.val["scores"].val)), ok |-> TRUE]

\* ScoreManager::load on a store holding entries: entries_ after the call and the
\* value returned
load(entries, file) ==
    IF file.state = "missing" THEN [entries_ |-> <<>>, ok |-> TRUE]
    ELSE IF file.state # "present" THEN [entries_ |-> <<>>, ok |-> FALSE]
    ELSE IF file.text.kind = "malformed" THEN [entries_ |-> <<>>, ok |-> FALSE]
    ELSE IF \/ file.text.kind # "object"
            \/ ~HasMember(file.text, "scores", "array")
         THEN [entries_ |-> <<>>, ok |-> FALSE]
    ELSE [entries_ |-> sortAndTrim(ParseItems(file.text.val["scores"].val)), ok |-> TRUE]

RECURSIVE ToJsonItems(_)
ToJsonItems(entries) ==
    IF entries = <<>> THEN <<>>
    ELSE <<toJson(Head(entries))>> \o ToJsonItems(Tail(entries))

\* ScoreManager::save: the file after the call and the value returned.  outcome is
\* what the file system does: "ok"; "dirs", create_directories fails; "open", the
\* file cannot be opened for writing; "write", the file is opened, and so emptied,
\* and the write fails.
save(entries, file, outcome) ==
    IF outcome = "dirs" THEN [file |-> file, ok |-> FALSE]
    ELSE IF outcome = "open" THEN [file |-> file, ok |-> FALSE]
    ELSE IF outcome = "write" THEN [file |-> FileOf(Malformed), ok |-> FALSE]
    ELSE [file |-> FileOf(JObject([scores |-> JArray(ToJsonItems(entries))])), ok |-> TRUE]

\* Timestamps, as the strings they are compared as: T1 < T2 are two timestamps
\* of the clock's format, T0 is a shorter string that T1 and T2 begin with
T0 == <<1, 0>>

T1 == <<1, 0, 0>>

T2 == <<1, 0, 1>>

\* what currentUtcIso8601() can return
Clock == {T1, T2}

\* the addScore calls explored: two of them tie in score and timestamp, one leaves
\* the player name empty, one leaves the timestamp to the clock
AddCalls ==
    << [score |-> 40, playerName |-> "Aylin", playedAtUtc |-> <<T1>>],
       [score |-> 40, playerName |-> "", playedAtUtc |-> <<T1>>],
       [score |-> 90, playerName |-> "Ece", playedAtUtc |-> NoString] >>

\* an entry object as save writes it
FullItem(score, playedAt, playerName) ==
    JObject([score |-> JInteger(score), played_at |-> JString(playedAt),
             player_name |-> JString(playerName)])

\* an entry object of a file written before player names were stored
LegacyItem(score, playedAt) ==
    JObject([score |-> JInteger(score), played_at |-> JString(playedAt)])

\* the items of the score files explored: entries as save writes them, legacy
\* entries, and entries with a member missing or of another kind
FileItems ==
    << FullItem(40, T1, "Enes"),
       FullItem(90, T2, "Inci"),
       JObject([score |-> JInteger(90), played_at |-> JString(T1), seed |-> JInteger(1234)]),
       LegacyItem(40, T0),
       FullItem(40, T2, ""),
       JObject([score |-> JInteger(70), played_at |-> JString(T1),
                player_name |-> JInteger(7)]),
       JObject([played_at |-> JString(T1), player_name |-> JString("Enes")]),
       JObject([score |-> JString(T1), played_at |-> JString(T1)]),
       JObject([score |-> JFloat(90), played_at |-> JString(T2)]),
       JObject([score |-> JInteger(90), player_name |-> JString("Inci")]),
       JObject([score |-> JInteger(90), played_at |-> JInteger(7)]),
       JInteger(90) >>

ScoresFile(items) == FileOf(JObject([scores |-> JArray(items)]))

\* the file of the legacy test: two entries without player names, in order
LegacyFile == ScoresFile(<<FileItems[3], FileItems[4]>>)

\* a file of more than kMaxEntries entries, out of order, some to be skipped
LongFile ==
    ScoresFile(<<FileItems[1], FileItems[7], FileItems[4], FileItems[2], FileItems[12],
                 FileItems[5], FileItems[3], FileItems[9], FileItems[6], FileItems[2]>>)

\* the score files a store is constructed on: no file, a file that cannot be found
\* or opened, text that is no JSON, JSON of another shape, and files of entries
ScoreFiles ==
    << NoFile,
       [state |-> "error", text |-> Malformed],
       [state |-> "closed", text |-> Malformed],
       FileOf(Malformed),
       FileOf(JArray(<<FileItems[1]>>)),
       FileOf(JObject([seed |-> JInteger(1234)])),
       FileOf(JObject([scores |-> JObject([score |-> JInteger(40)])])),
       FileOf(JInteger(90)),
       ScoresFile(<<>>),
       LegacyFile,
       LongFile >>
    \o [i \in 1 .. Len(FileItems) |-> ScoresFile(<<FileItems[i]>>)]
    \o [i \in 1 .. Len(FileItems) |-> ScoresFile(<<FileItems[1], FileItems[i]>>)]

\* what the file system can do in save
SaveOutcomes == {"ok", "dirs", "open", "write"}

\* no application: the engines, the store or the sampler alone
NoApp == [scene |-> "none"]

\* a sampler that is not used
NoSampler ==
    [rng |-> 0, from |-> 0, upperExclusive |-> 0, value |-> 0, drew |-> FALSE,
     called |-> FALSE]

---------------------------------------------------------------------------
\* The leaderboard store as a state machine

\* adds explored on a store constructed on no file
MaxAdds == 6

\* adds explored on a store constructed on one of the other score files
MaxFixtureAdds == 1

\* save calls explored on a store
MaxSaves == 1

\* the entry an addScore call asks to insert
InsertedEntry(c, now) ==
    [score |-> c.score,
     playedAtUtc |-> IF c.playedAtUtc = NoString THEN now ELSE c.playedAtUtc[1],
     playerName |-> IF c.playerName = "" THEN Oyuncu ELSE c.playerName]

\* the claimed order of the leaderboard: a stands before b
RankedBefore(a, b) ==
    \/ a.score > b.score
    \/ a.score = b.score /\ StringGreater(a.playedAtUtc, b.playedAtUtc)

\* a list in that order with e added behind the entries it does not stand before
Ranked(list, e) ==
    LET ahead == Cardinality({i \in 1 .. Len(list) : ~RankedBefore(e, list[i])})
    IN  SubSeq(list, 1, ahead) \o <<e>> \o SubSeq(list, ahead + 1, Len(list))

\* the first kMaxEntries entries of a list
TopK(list) == SubSeq(list, 1, IF Len(list) < kMaxEntries THEN Len(list) ELSE kMaxEntries)

\* ScoreManager(scoreFilePath) on a path holding the file
NewStore(file, fixture) ==
    [entries_ |-> <<>>, file |-> file,
     inserted |-> <<>>, sinceEmpty |-> TRUE, saved |-> <<>>,
     adds |-> 0, saves |-> 0, fixture |-> fixture,
     op |-> [name |-> "ScoreManager", ok |-> TRUE, held |-> 0],
     best |-> 0]

---------------------------------------------------------------------------
\* The state machine

\* an engine after a call that is no applyMove
Settled(e) == [game |-> e, result |-> NoResult, mid |-> e.grid_]

\* Game(seed): both engines are constructed with the same seed
GameInit(seed) ==
    /\ call = Settled(reset([grid_ |-> EmptyGrid, score_ |-> 0, rng_ |-> 0, seed_ |-> 0], seed))
    /\ twinCall = call
    /\ pre = game
    /\ op = [name |-> "Game", dir |-> "none", spawnOnMove |-> FALSE, seed |-> seed]
    /\ moves = 0
    /\ loaded = FALSE
    /\ over = isGameOver(game.grid_)

\* the engines alone: no store is used and no sampler outside the engines
Init ==
    /\ \E seed \in Seeds : GameInit(seed)
    /\ store = NewStore(NoFile, FALSE)
    /\ sampler = NoSampler
    /\ app = NoApp

\* reset(seed) on both engines
Reset(seed) ==
    /\ call' = Settled(reset(game, seed))
    /\ twinCall' = Settled(reset(twin, seed))
    /\ pre' = call'.game
    /\ op' = [name |-> "reset", dir |-> "none", spawnOnMove |-> FALSE, seed |-> seed]
    /\ moves' = 0
    /\ loaded' = FALSE
    /\ over' = isGameOver(call'.game.grid_)

\* game is as Game(0) or reset(0) left it, as every fixture of the unit tests
Fresh == moves = 0 /\ ~loaded /\ game.seed_ = 0

\* loadState(grid, score) on game
LoadState(grid, score) ==
    /\ call' = Settled(loadState(game, grid, score))
    /\ pre' = call'.game
    /\ op' = [name |-> "loadState", dir |-> "none", spawnOnMove |-> FALSE, seed |-> game.seed_]
    /\ moves' = 0
    /\ loaded' = TRUE
    /\ over' = isGameOver(call'.game.grid_)
    /\ UNCHANGED twinCall

\* applyMove(dir, spawnOnMove) on game, and on twin while game is not loaded
ApplyMove(dir, spawnOnMove) ==
    /\ moves < (IF loaded THEN MaxLoadedMoves ELSE MaxMoves)
    /\ call' = applyMove(game, dir, spawnOnMove)
    /\ twinCall' = IF loaded THEN twinCall
                             ELSE applyMove(twin, dir, spawnOnMove)
    /\ pre' = game
    /\ op' = [name |-> "applyMove", dir |-> dir, spawnOnMove |-> spawnOnMove, seed |-> game.seed_]
    /\ moves' = moves + 1
    /\ over' = isGameOver(call'.game.grid_)
    /\ UNCHANGED loaded

Next ==
    \/ (\E seed \in Seeds : Reset(seed)) /\ UNCHANGED <<store, sampler, app>>
    \/ (Fresh /\ \E grid \in LoadGrids : LoadState(grid, LoadScore))
           /\ UNCHANGED <<store, sampler, app>>
    \/ (\E dir \in Directions, spawnOnMove \in BOOLEAN : ApplyMove(dir, spawnOnMove))
           /\ UNCHANGED <<store, sampler, app>>

Spec == Init /\ [][Next]_vars

---------------------------------------------------------------------------
\* The leaderboard store: its calls

\* addScore(score, playerName, playedAtUtc) with the c-th of the calls explored
AddScore(c, now) ==
    /\ store.adds < (IF store.fixture THEN MaxFixtureAdds ELSE MaxAdds)
    /\ store' =
           LET entries == addScore(store.entries_, AddCalls[c].score, AddCalls[c].playerName,
                                   AddCalls[c].playedAtUtc, now)
           IN  [store EXCEPT !.entries_ = entries,
                             !.inserted = Ranked(@, InsertedEntry(AddCalls[c], now)),
                             !.adds = @ + 1,
                             !.op = [name |-> "addScore", ok |-> TRUE,
                                     held |-> Len(store.entries_)],
                             !.best = bestScore(entries)]

\* load()
Load ==
    store' =
        LET r == load(store.entries_, store.file)
        IN  [store EXCEPT !.entries_ = r.entries_,
                          !.inserted = r.entries_,
                          !.sinceEmpty = FALSE,
                          !.op = [name |-> "load", ok |-> r.ok, held |-> Len(store.entries_)],
                          !.best = bestScore(r.entries_)]

\* save()
Save(outcome) ==
    /\ store.saves < MaxSaves
    /\ store' =
        LET r == save(store.entries_, store.file, outcome)
        IN  [store EXCEPT !.file = r.file,
                          !.saves = @ + 1,
                          !.saved = IF r.ok THEN <<store.entries_>>
                                    ELSE IF r.file = store.file THEN @ ELSE <<>>,
                          !.op = [name |-> "save", ok |-> r.ok, held |-> Len(store.entries_)]]

ScoreInit ==
    /\ GameInit(0)
    /\ \E f \in 1 .. Len(ScoreFiles) : store = NewStore(ScoreFiles[f], f # 1)
    /\ sampler = NoSampler
    /\ app = NoApp

ScoreNext ==
    \/ (\E c \in 1 .. Len(AddCalls), now \in Clock : AddScore(c, now))
           /\ UNCHANGED <<gameVars, sampler, app>>
    \/ Load /\ UNCHANGED <<gameVars, sampler, app>>
    \/ (\E outcome \in SaveOutcomes : Save(outcome)) /\ UNCHANGED <<gameVars, sampler, app>>

ScoreSpec == ScoreInit /\ [][ScoreNext]_vars

---------------------------------------------------------------------------
\* The bounded sampler as a state machine

\* the upper bounds a call can give: every value of the generator's word
UpperBounds == 0 .. (RngRange - 1)

\* nextBounded(rng, upperExclusive) on the generator in state sampler.rng
Sample(upperExclusive) ==
    sampler' =
        LET r == nextBounded(sampler.rng, upperExclusive)
        IN  [rng |-> r.rng, from |-> sampler.rng, upperExclusive |-> upperExclusive,
             value |-> r.value, drew |-> r.rng # sampler.rng, called |-> TRUE]

SamplerInit ==
    /\ GameInit(0)
    /\ store = NewStore(NoFile, FALSE)
    /\ app = NoApp
    /\ \E s \in 0 .. (RngRange - 1) :
           sampler = [rng |-> s, from |-> s, upperExclusive |-> 0, value |-> 0,
                      drew |-> FALSE, called |-> FALSE]

SamplerNext ==
    (\E upperExclusive \in UpperBounds : Sample(upperExclusive))
        /\ UNCHANGED <<gameVars, store, app>>

SamplerSpec == SamplerInit /\ [][SamplerNext]_vars

---------------------------------------------------------------------------
\* nextBounded step by step: every pass of its do-while loop is a step

\* the upper bounds spawnTile gives: the number of empty cells, and 10
SpawnBounds == 0 .. (kGridSize * kGridSize)

\* Faulty variant of RejectionLimit: range is computed in the generator's word, where
\* max() + 1 wraps to 0.
RejectionLimitNarrow(upperExclusive) ==
    ((RngRange % RngRange) \div upperExclusive) * upperExclusive

\* rejectionLimit = bucketSize * upperExclusive, in 64 bits
RejectionLimit(upperExclusive) == (RngRange \div upperExclusive) * upperExclusive

\* nextBounded is entered: it returns at once for upperExclusive = 0, and comes to
\* its loop otherwise
Enter(upperExclusive) ==
    /\ sampler.pc # "loop"
    /\ sampler' = [pc |-> IF upperExclusive = 0 THEN "returned" ELSE "loop",
                   rng |-> sampler.rng, from |-> sampler.rng,
                   upperExclusive |-> upperExclusive, value |-> 0, draws |-> 0]

\* one pass of the loop: value = rng(), then the test value >= rejectionLimit; the
\* return statement follows the last pass
Draw ==
    /\ sampler.pc = "loop"
    /\ LET value == RngStep(sampler.rng)
           bucketSize == RngRange \div sampler.upperExclusive
       IN  sampler' =
               IF value >= RejectionLimit(sampler.upperExclusive)
               THEN [sampler EXCEPT !.rng = value, !.draws = @ + 1]
               ELSE [sampler EXCEPT !.rng = value, !.draws = @ + 1,
                                    !.value = value \div bucketSize, !.pc = "returned"]

DrawInit ==
    /\ GameInit(0)
    /\ store = NewStore(NoFile, FALSE)
    /\ app = NoApp
    /\ \E s \in 0 .. (RngRange - 1) :
           sampler = [pc |-> "idle", rng |-> s, from |-> s, upperExclusive |-> 0,
                      value |-> 0, draws |-> 0]

DrawNext ==
    \/ (\E upperExclusive \in SpawnBounds : Enter(upperExclusive))
           /\ UNCHANGED <<gameVars, store, app>>
    \/ Draw /\ UNCHANGED <<gameVars, store, app>>

\* the thread that entered the loop keeps running
DrawSpec == DrawInit /\ [][DrawNext]_vars /\ WF_vars(Draw /\ UNCHANGED <<gameVars, store, app>>)

---------------------------------------------------------------------------
\* The application (main, app::run): its scenes, its session and its store

\* std::optional<std::uint32_t>
NoSeed == <<>>

\* what --seed can have set config.seed to
ConfigSeeds == {NoSeed, <<0>>}

\* arrow keys explored in a game of the application
MaxAppMoves == 1

\* what the player can have typed as a name when asking to start
PlayerNames == {"", "Enes"}

\* PlayingScene::resetVisualEffects
resetVisualEffects(a) == [a EXCEPT !.moveAnimationActive = FALSE, !.menuOpen = FALSE]

\* PlayingScene::tickVisuals: the move animation ends once its duration has elapsed
tickVisuals(a, elapsed) ==
    [a EXCEPT !.moveAnimationActive = @ /\ ~elapsed]

\* GameSession::resetGame: game_.reset(), which seeds from std::random_device;
\* device is the value the device gives
ResetGame(device) == Reset(device)

\* applySceneCommand for StartGame and RestartGame, and what run does after it
StartOrRestart(a, command) ==
    [resetVisualEffects(a) EXCEPT !.scene = "Playing", !.finalScorePersisted = FALSE,
                                  !.recorded = 0, !.command = command]

\* the arrow keys pressed in the playing scene before a game is taken up are at
\* most 2 ^ MaxPlayed
MaxPlayed == 9

\* the keys of a player who presses the four arrows in turn
KeysInTurn == <<"Up", "Right", "Down", "Left">>

\* one more key can end the game of engine e
NearOver(e) ==
    \E dir \in Directions : isGameOver(applyMove(e, dir, TRUE).game.grid_)

\* the next arrow in turn, given once the animation of the one before has ended,
\* unless one more key can end the game
PlayKey(s) ==
    IF NearOver(s.game) \/ isGameOver(s.game.grid_)
    THEN s
    ELSE [game |-> applyMove(s.game, KeysInTurn[(s.played % 4) + 1], TRUE).game,
          played |-> s.played + 1]

\* 2 ^ doublings keys in turn, up to the first state in which one more key can end
\* the game (a first half in which no key was pressed leaves none for the second)
RECURSIVE PlayOn(_, _)
PlayOn(s, doublings) ==
    IF doublings = 0
    THEN PlayKey(s)
    ELSE LET half == PlayOn(s, doublings - 1)
         IN  IF half.played = s.played THEN half ELSE PlayOn(half, doublings - 1)

\* app::run up to its loop, for the configuration main read from the command line:
\* the store is loaded, the session constructed, the splash scene shown
Launched(seed) ==
    [config |-> [seed |-> seed], scene |-> "Splash", open |-> TRUE,
     finalScorePersisted |-> FALSE, recorded |-> 0, bestScore |-> 0,
     playerName |-> Oyuncu, moveAnimationActive |-> FALSE,
     menuOpen |-> FALSE, command |-> "None"]

\* The application as it enters its loop, or some way into a first game: started
\* by the player "Enes" when the device gave the seed 0, and played with the arrows
\* in turn, at rest
AppInit ==
    /\ store = [NewStore(NoFile, FALSE) EXCEPT !.sinceEmpty = FALSE,
                                                !.op = [name |-> "load", ok |-> TRUE,
                                                        held |-> 0]]
    /\ sampler = NoSampler
    /\ \E seed \in ConfigSeeds, device \in Seeds :
           \/ /\ GameInit(device)
              /\ app = Launched(seed)
           \/ /\ device = 0
              /\ call = Settled(PlayOn([game |-> reset([grid_ |-> EmptyGrid, score_ |-> 0,
                                                         rng_ |-> 0, seed_ |-> 0],
                                                        device),
                                         played |-> 0], MaxPlayed).game)
              /\ twinCall = call
              /\ pre = game
              /\ op = [name |-> "played", dir |-> "none", spawnOnMove |-> TRUE,
                       seed |-> device]
              /\ moves = 0
              /\ loaded = FALSE
              /\ over = isGameOver(game.grid_)
              /\ app = [Launched(seed) EXCEPT !.scene = "Playing", !.playerName = "Enes",
                                              !.command = "None"]

\* sf::Event::Closed
Closed ==
    /\ app.open
    /\ app' = [app EXCEPT !.open = FALSE, !.command = "None"]
    /\ UNCHANGED <<gameVars, store, sampler>>

\* the splash scene: Enter or the start button with the name typed
SplashStart(name, device) ==
    /\ app.open /\ app.scene = "Splash"
    /\ IF name = ""
       THEN /\ app' = [app EXCEPT !.command = "None"]
            /\ UNCHANGED gameVars
       ELSE /\ ResetGame(device)
            /\ app' = [StartOrRestart(app, "StartGame") EXCEPT !.playerName = name]
    /\ UNCHANGED <<store, sampler>>

\* the splash scene: the scores button
SplashShowHighScores ==
    /\ app.open /\ app.scene = "Splash"
    /\ app' = [app EXCEPT !.scene = "HighScores", !.command = "ShowHighScores"]
    /\ UNCHANGED <<gameVars, store, sampler>>

\* the splash scene: Escape or Q
SplashQuit ==
    /\ app.open /\ app.scene = "Splash"
    /\ app' = [app EXCEPT !.open = FALSE, !.command = "Quit"]
    /\ UNCHANGED <<gameVars, store, sampler>>

\* the high-scores scene: Escape, Q, BackSpace or the back button
HighScoresBack ==
    /\ app.open /\ app.scene = "HighScores"
    /\ app' = [resetVisualEffects(app) EXCEPT !.scene = "Splash", !.command = "ShowSplash"]
    /\ UNCHANGED <<gameVars, store, sampler>>

\* the playing scene: Escape
PlayingEscape ==
    /\ app.open /\ app.scene = "Playing"
    /\ app' = [resetVisualEffects(app) EXCEPT !.scene = "Splash", !.command = "ShowSplash"]
    /\ UNCHANGED <<gameVars, store, sampler>>

\* the playing scene: N or Enter, or the new-game button of the open menu
PlayingRestart(byMenu, device) ==
    /\ app.open /\ app.scene = "Playing"
    /\ byMenu => app.menuOpen
    /\ ResetGame(device)
    /\ app' = StartOrRestart(app, "RestartGame")
    /\ UNCHANGED <<store, sampler>>

\* the playing scene: a click on the menu button, on the sound button of the open
\* menu, or outside the open menu
PlayingClick(target, elapsed) ==
    /\ app.open /\ app.scene = "Playing"
    /\ target # "MenuButton" => app.menuOpen
    /\ app' = LET ticked == tickVisuals(app, elapsed)
              IN  IF target = "MenuButton"
                  THEN [ticked EXCEPT !.menuOpen = ~@, !.command = "None"]
                  ELSE IF target = "SoundButton"
                  THEN [ticked EXCEPT !.menuOpen = FALSE, !.command = "ToggleSound"]
                  ELSE [ticked EXCEPT !.menuOpen = FALSE, !.command = "None"]
    /\ UNCHANGED <<gameVars, store, sampler>>

\* the playing scene: an arrow key
PlayingMove(dir, elapsed) ==
    /\ app.open /\ app.scene = "Playing"
    /\ LET ticked == tickVisuals(app, elapsed)
       IN  IF ticked.moveAnimationActive
           THEN /\ app' = [ticked EXCEPT !.command = "None"]
                /\ UNCHANGED gameVars
           ELSE /\ moves < MaxAppMoves
                /\ ApplyMove(dir, TRUE)
                /\ app' = [ticked EXCEPT !.moveAnimationActive = call'.result.moved,
                                         !.command = "None"]
    /\ UNCHANGED <<store, sampler>>

\* the game-over scene: N, Enter or the new-game button
GameOverRestart(device) ==
    /\ app.open /\ app.scene = "GameOver"
    /\ ResetGame(device)
    /\ app' = StartOrRestart(app, "RestartGame")
    /\ UNCHANGED <<store, sampler>>

\* the game-over scene: Q, Escape or the quit button
GameOverQuit ==
    /\ app.open /\ app.scene = "GameOver"
    /\ app' = [app EXCEPT !.open = FALSE, !.command = "Quit"]
    /\ UNCHANGED <<gameVars, store, sampler>>

\* the next pass of the loop can record the score: the clock and the file system
\* matter to it
FrameRecords ==
    app.scene = "Playing" /\ isGameOver(game.grid_) /\ ~app.finalScorePersisted

\* Faulty variant of handOff: the score is recorded whenever the game is over and
\* at rest, finalScorePersisted is not consulted and the scene is not changed.
handOffEveryPass(a, e, st, now, outcome) ==
    IF a.scene = "Playing" /\ isGameOver(e.grid_) /\ ~a.moveAnimationActive
    THEN LET entries == addScore(st.entries_, e.score_, a.playerName, NoString, now)
         IN  [app |-> [a EXCEPT !.bestScore = bestScore(entries), !.recorded = @ + 1],
              store |-> [st EXCEPT !.entries_ = entries, !.adds = @ + 1,
                                   !.file = save(entries, st.file, outcome).file,
                                   !.best = bestScore(entries)]]
    ELSE [app |-> a, store |-> st]

\* the hand-off of run: when the scene is Playing and the game of engine e is over
\* and at rest, its score is added to the store st and the store saved, unless that
\* was done, and the game-over scene is shown; recorded counts the addScore calls
\* since the game was started
handOff(a, e, st, now, outcome) ==
    IF a.scene = "Playing" /\ isGameOver(e.grid_) /\ ~a.moveAnimationActive
    THEN IF ~a.finalScorePersisted
         THEN LET entries == addScore(st.entries_, e.score_, a.playerName, NoString, now)
                  saved == save(entries, st.file, outcome)
              IN  [app |-> [a EXCEPT !.bestScore = bestScore(entries),
                                     !.finalScorePersisted = TRUE,
                                     !.recorded = @ + 1,
                                     !.scene = "GameOver"],
                   store |-> [st EXCEPT
                                 !.entries_ = entries,
                                 !.inserted = Ranked(@, InsertedEntry(
                                                  [score |-> e.score_,
                                                   playerName |-> a.playerName,
                                                   playedAtUtc |-> NoString], now)),
                                 !.adds = @ + 1,
                                 !.file = saved.file,
                                 !.op = [name |-> "save", ok |-> saved.ok,
                                         held |-> Len(entries)],
                                 !.best = bestScore(entries)]]
         ELSE [app |-> [a EXCEPT !.scene = "GameOver"], store |-> st]
    ELSE [app |-> a, store |-> st]

\* one pass of the loop of run after the events: the animation is ticked, a game
\* that is over and at rest has its score handed off, and the scene is rendered
Frame(elapsed, elapsedAtRender, now, outcome) ==
    /\ app.open
    /\ LET ticked == IF app.scene = "Playing" THEN tickVisuals(app, elapsed) ELSE app
           handed == handOff(ticked, game, store, now, outcome)
       IN  /\ store' = handed.store
           /\ app' = [IF handed.app.scene \in {"Playing", "GameOver"}
                      THEN tickVisuals(handed.app, elapsedAtRender) ELSE handed.app
                          EXCEPT !.command = "None"]
    /\ UNCHANGED <<gameVars, sampler>>

AppNext ==
    \/ Closed
    \/ \E name \in PlayerNames, device \in Seeds : SplashStart(name, device)
    \/ SplashShowHighScores
    \/ SplashQuit
    \/ HighScoresBack
    \/ PlayingEscape
    \/ \E byMenu \in BOOLEAN, device \in Seeds : PlayingRestart(byMenu, device)
    \/ \E target \in {"MenuButton", "SoundButton", "Outside"}, elapsed \in BOOLEAN :
           PlayingClick(target, elapsed)
    \/ \E dir \in Directions, elapsed \in BOOLEAN : PlayingMove(dir, elapsed)
    \/ \E device \in Seeds : GameOverRestart(device)
    \/ GameOverQuit
    \/ \E elapsed \in BOOLEAN, elapsedAtRender \in BOOLEAN :
           \E now \in (IF FrameRecords THEN Clock ELSE {T1}),
              outcome \in (IF FrameRecords THEN SaveOutcomes ELSE {"ok"}) :
               Frame(elapsed, elapsedAtRender, now, outcome)

AppSpec == AppInit /\ [][AppNext]_vars



---------------------------------------------------------------------------
\* What the properties below are stated with

\* isPowerOfTwoOrZero of the unit tests, for a non-zero value
RECURSIVE IsPowerOfTwo(_)
IsPowerOfTwo(v) == v >= 1 /\ (v = 1 \/ (v % 2 = 0 /\ IsPowerOfTwo(v \div 2)))

\* every non-zero cell of the grid is a power of two
PowerOfTwoGrid(grid) ==
    \A r \in Idx, c \in Idx : grid[r][c] # 0 => IsPowerOfTwo(grid[r][c])

RECURSIVE SumSeq(_)
SumSeq(seq) == IF seq = <<>> THEN 0 ELSE Head(seq) + SumSeq(Tail(seq))

\* sumGrid of the unit tests
sumGrid(grid) ==
    SumSeq([k \in 1 .. (kGridSize * kGridSize) |->
               grid[(k - 1) \div kGridSize][(k - 1) % kGridSize]])

\* line i of the grid as a sequence, read from the edge the direction moves to
LeadLine(grid, dir, i) ==
    [k \in 1 .. kGridSize |->
        CASE dir = "Left"  -> grid[i][k - 1]
          [] dir = "Right" -> grid[i][kGridSize - k]
          [] dir = "Up"    -> grid[k - 1][i]
          [] dir = "Down"  -> grid[kGridSize - k][i]]

\* the reference operator on a line: drop the zeros, replace each pair of equal
\* neighbours, from the front, by one cell of twice the value, pad with zeros
RECURSIVE RefMerge(_)
RefMerge(seq) ==
    IF Len(seq) < 2
    THEN seq
    ELSE IF seq[1] = seq[2]
         THEN <<2 * seq[1]>> \o RefMerge(Tail(Tail(seq)))
         ELSE <<seq[1]>> \o RefMerge(Tail(seq))

RefLine(seq) ==
    LET merged == RefMerge(SelectSeq(seq, LAMBDA v : v # 0))
    IN  merged \o [k \in 1 .. (kGridSize - Len(merged)) |-> 0]

\* the values of the tiles the reference operator creates by merges, summed
RECURSIVE RefScoreOf(_)
RefScoreOf(seq) ==
    IF Len(seq) < 2
    THEN 0
    ELSE IF seq[1] = seq[2]
         THEN 2 * seq[1] + RefScoreOf(Tail(Tail(seq)))
         ELSE RefScoreOf(Tail(seq))

RefScore(seq) == RefScoreOf(SelectSeq(seq, LAMBDA v : v # 0))

\* the last call was applyMove
Moved == op.name = "applyMove"

---------------------------------------------------------------------------
\* C1  Mass conservation: applyMove(dir, spawnOnMove = false) on a grid whose
\* non-zero cells are powers of two leaves the sum of the 16 cells as it was.
MassConservation ==
    (Moved /\ ~op.spawnOnMove /\ PowerOfTwoGrid(pre.grid_))
        => sumGrid(game.grid_) = sumGrid(pre.grid_)

\* a move without spawn of a power-of-two grid that merged tiles
MassConservationWitness ==
    /\ Moved /\ ~op.spawnOnMove /\ PowerOfTwoGrid(pre.grid_)
    /\ result.scoreDelta > 0
    /\ op.dir = "Down"

\* C2  Merge-once line rule: in every direction each line, read from the leading
\* edge, is replaced by the reference operator's result for it (a merged cell is
\* not merged again); <<2,2,4,4>> gives <<4,8,0,0>> with score 12 and <<2,2,2,2>>
\* gives <<4,4,0,0>> with score 8.
MergeOnceLineRule ==
    Moved =>
        \A i \in Idx :
            LET before == LeadLine(pre.grid_, op.dir, i)
                after == LeadLine(mid, op.dir, i)
            IN  /\ after = RefLine(before)
                /\ before = <<2, 2, 4, 4>> => after = <<4, 8, 0, 0>> /\ RefScore(before) = 12
                /\ before = <<2, 2, 2, 2>> => after = <<4, 4, 0, 0>> /\ RefScore(before) = 8
                /\ (\A j \in Idx : j # i => LeadLine(pre.grid_, op.dir, j) = <<0, 0, 0, 0>>)
                       => result.scoreDelta = RefScore(before)

\* the line <<2,2,4,4>>, alone on the board, was moved towards its leading edge
MergeOnceLineRuleWitness ==
    /\ Moved
    /\ op.dir = "Right"
    /\ LeadLine(pre.grid_, op.dir, 2) = <<2, 2, 4, 4>>
    /\ LeadLine(mid, op.dir, 2) = <<4, 8, 0, 0>>
    /\ result.scoreDelta = 12

\* C3  No-op stability: when applyMove returns moved = false, the grid, the score
\* and the generator are as before the call, scoreDelta is 0 and no tile is spawned.
NoOpStability ==
    (Moved /\ ~result.moved)
        => /\ game.grid_ = pre.grid_
           /\ game.score_ = pre.score_
           /\ game.rng_ = pre.rng_
           /\ result.scoreDelta = 0
           /\ result.spawnedTile = NoTile

\* a move with spawnOnMove that moved nothing, on a board with tiles and empty cells
NoOpStabilityWitness ==
    /\ Moved /\ ~result.moved /\ op.spawnOnMove
    /\ Len(EmptyCells(pre.grid_)) \in 1 .. 15

\* every non-zero cell of the grid is a power of two that is at least 2
TileGrid(grid) ==
    \A r \in Idx, c \in Idx : grid[r][c] # 0 => IsPowerOfTwo(grid[r][c]) /\ grid[r][c] >= 2

\* the non-empty cells of the grid
Tiles(grid) == {p \in Idx \X Idx : grid[p[1]][p[2]] # 0}

\* C4  Power-of-two invariant, as amended: in every state reached from reset(seed)
\* by applyMove calls every non-zero cell is a power of two that is at least 2;
\* after applyMove on a loaded grid whose non-zero cells are powers of two every
\* non-zero cell is again a power of two, and at least 2 when the loaded cells were.
PowerOfTwoInvariant ==
    /\ ~loaded => TileGrid(game.grid_)
    /\ (loaded /\ Moved /\ PowerOfTwoGrid(pre.grid_)) => PowerOfTwoGrid(game.grid_)
    /\ (loaded /\ Moved /\ TileGrid(pre.grid_)) => TileGrid(game.grid_)

\* a move of a loaded grid of tiles >= 2 that merged and spawned
PowerOfTwoInvariantWitness ==
    /\ loaded /\ Moved /\ TileGrid(pre.grid_)
    /\ result.scoreDelta > 0
    /\ result.spawnedTile # NoTile

\* C4 as claimed: the cells are powers of two that are at least 2 also after
\* applyMove on any loaded grid whose non-zero cells are powers of two.
PowerOfTwoInvariantAsClaimed ==
    /\ ~loaded => TileGrid(game.grid_)
    /\ (loaded /\ Moved /\ PowerOfTwoGrid(pre.grid_)) => TileGrid(game.grid_)

\* C5  Meaning of moved: applyMove returns moved = true exactly when the grid after
\* slide and merge, before any spawn, differs from the grid before the call; a move
\* that slides tiles without merging any has moved = true and scoreDelta = 0 and,
\* with spawnOnMove, spawns a tile.
MovedMeaning ==
    Moved =>
        /\ result.moved <=> mid # pre.grid_
        /\ (mid # pre.grid_ /\ Cardinality(Tiles(mid)) = Cardinality(Tiles(pre.grid_)))
               => /\ result.moved
                  /\ result.scoreDelta = 0
                  /\ op.spawnOnMove => result.spawnedTile # NoTile

\* a move with spawnOnMove that slid tiles and merged none
MovedMeaningWitness ==
    /\ Moved /\ op.spawnOnMove
    /\ mid # pre.grid_
    /\ Cardinality(Tiles(mid)) = Cardinality(Tiles(pre.grid_))
    /\ result.spawnedTile # NoTile

\* C6  Score accumulation: scoreDelta is non-negative and is the sum of the values
\* of the tiles created by merges over the four lines, and the score after the call
\* is the score before it plus scoreDelta.
ScoreAccumulation ==
    Moved =>
        /\ result.scoreDelta >= 0
        /\ result.scoreDelta =
               SumSeq([k \in 1 .. kGridSize |-> RefScore(LeadLine(pre.grid_, op.dir, k - 1))])
        /\ game.score_ = pre.score_ + result.scoreDelta

\* a move on a loaded score that merged tiles in more than one line
ScoreAccumulationWitness ==
    /\ Moved
    /\ pre.score_ = LoadScore
    /\ Cardinality({i \in Idx : RefScore(LeadLine(pre.grid_, op.dir, i)) > 0}) > 1
    /\ game.score_ > pre.score_

\* two cells are horizontal or vertical neighbours
Adjacent(p, q) ==
    \/ p[1] = q[1] /\ (p[2] - q[2] = 1 \/ q[2] - p[2] = 1)
    \/ p[2] = q[2] /\ (p[1] - q[1] = 1 \/ q[1] - p[1] = 1)

\* C7  Game-over predicate: isGameOver() is true exactly when no cell is empty and
\* no two horizontally or vertically adjacent cells hold equal values.
GameOverPredicate ==
    over <=> /\ Tiles(game.grid_) = Idx \X Idx
             /\ \A p \in Idx \X Idx, q \in Idx \X Idx :
                    Adjacent(p, q) => game.grid_[p[1]][p[2]] # game.grid_[q[1]][q[2]]

\* isGameOver() is true of a loaded board
GameOverPredicateWitness ==
    over /\ op.name = "loadState"

\* C8  Mirror symmetry Left/Right: applyMove(Left, false) on a grid G and
\* applyMove(Right, false) on the horizontal mirror of G return the same moved and
\* scoreDelta, and the resulting grids are horizontal mirrors of each other.
MirrorSymmetryLeftRight ==
    (Moved /\ op.dir = "Left" /\ ~op.spawnOnMove)
        => LET right == applyMove([pre EXCEPT !.grid_ = mirrorHorizontal(pre.grid_)],
                                  "Right", FALSE)
           IN  /\ result.moved = right.result.moved
               /\ result.scoreDelta = right.result.scoreDelta
               /\ game.grid_ = mirrorHorizontal(right.game.grid_)

\* a move Left without spawn that merged tiles of a grid that is not its own mirror
MirrorSymmetryLeftRightWitness ==
    /\ Moved /\ op.dir = "Left" /\ ~op.spawnOnMove
    /\ result.scoreDelta > 0
    /\ pre.grid_ # mirrorHorizontal(pre.grid_)
    /\ game.grid_ # mirrorHorizontal(game.grid_)

ResetPostcondition ==
    op.name \in {"Game", "reset"} =>
        /\ game.score_ = 0
        /\ Cardinality(Tiles(game.grid_)) = 2
        /\ \A p \in Tiles(game.grid_) : game.grid_[p[1]][p[2]] \in {2, 4}

\* a reset that spawned a 2 and a 4
ResetPostconditionWitness ==
    /\ op.name = "reset"
    /\ \E p \in Tiles(game.grid_), q \in Tiles(game.grid_) :
           game.grid_[p[1]][p[2]] = 2 /\ game.grid_[q[1]][q[2]] = 4

---------------------------------------------------------------------------
\* C11  A move never succeeds without a spawn: whenever applyMove(dir, spawnOnMove =
\* true) returns moved == true, the grid after slide and merge has an empty cell and
\* spawnedTile is present, also when the board was full before the move.
MoveAlwaysSpawns ==
    (Moved /\ result.moved) =>
        /\ Len(EmptyCells(mid)) >= 1
        /\ op.spawnOnMove => result.spawnedTile # NoTile

\* a move with spawn on a board that was full: the merge made the opening
MoveAlwaysSpawnsWitness ==
    /\ Moved /\ op.spawnOnMove /\ result.moved
    /\ Len(EmptyCells(pre.grid_)) = 0
    /\ Len(EmptyCells(mid)) = 1
    /\ result.spawnedTile # NoTile

\* C11 as claimed: a move can succeed without a spawn: the last applyMove did, or
\* there is a grid and a direction for which applyMove(dir, true) returns moved ==
\* true with spawnedTile absent.
MoveWithoutSpawnExists ==
    \/ Moved /\ op.spawnOnMove /\ result.moved /\ result.spawnedTile = NoTile
    \/ \E grid \in LoadGrids, dir \in Directions :
           LET r == applyMove(loadState(game, grid, LoadScore), dir, TRUE).result
           IN  r.moved /\ r.spawnedTile = NoTile

---------------------------------------------------------------------------
\* What the properties of the leaderboard store are stated with

\* the score file has the shape load asks for: an object with an array "scores"
WellShaped(file) ==
    /\ file.state = "present"
    /\ file.text.kind = "object"
    /\ "scores" \in DOMAIN file.text.val
    /\ file.text.val["scores"].kind = "array"

\* an item of the file that is an entry: an integer score and a string timestamp
Keepable(item) ==
    /\ item.kind = "object"
    /\ "score" \in DOMAIN item.val /\ item.val["score"].kind = "integer"
    /\ "played_at" \in DOMAIN item.val /\ item.val["played_at"].kind = "string"

\* the player name an entry of the file is kept with
KeptName(item) ==
    IF "player_name" \in DOMAIN item.val
    THEN IF item.val["player_name"].kind = "string"
         THEN IF item.val["player_name"].val = "" THEN Oyuncu
                                                  ELSE item.val["player_name"].val
         ELSE Oyuncu
    ELSE Oyuncu

\* the entries of the file, in leaderboard order
RECURSIVE KeptRanked(_, _)
KeptRanked(items, ranked) ==
    IF items = <<>> THEN ranked
    ELSE KeptRanked(Tail(items),
                    IF Keepable(Head(items))
                    THEN Ranked(ranked, [score |-> Head(items).val["score"].val,
                                         playedAtUtc |-> Head(items).val["played_at"].val,
                                         playerName |-> KeptName(Head(items))])
                    ELSE ranked)

\* a store given addScore(score, "Aylin", T1) for each of the scores in turn
RECURSIVE AddAll(_, _)
AddAll(scores, entries) ==
    IF scores = <<>> THEN entries
    ELSE AddAll(Tail(scores), addScore(entries, Head(scores), "Aylin", <<T1>>, T2))

ScoresOf(entries) == [i \in 1 .. Len(entries) |-> entries[i].score]

---------------------------------------------------------------------------
\* C12  Seed threading: when a seed was given on the command line, every game the
\* application starts or restarts is initialised by Game::reset with exactly that
\* seed, so the game the player sees is the one the seed determines.
SeedThreading ==
    (/\ app.scene = "Playing"
     /\ app.command \in {"StartGame", "RestartGame"}
     /\ app.config.seed # NoSeed
     /\ op.name = "reset") =>
        /\ op.seed = app.config.seed[1]
        /\ game = reset(game, app.config.seed[1])

---------------------------------------------------------------------------
\* C13  Leaderboard top-K retention: after any sequence of addScore calls on an empty
\* store, topScores() is the first min(5, n) of the n inserted entries in the order
\* score descending, then timestamp descending; inserting 40, 90, 10, 70, 20, 50, 80
\* leaves 90, 80, 70, 50, 40.
LeaderboardTopK ==
    /\ store.sinceEmpty =>
          /\ Len(store.inserted) = store.adds
          /\ \A i \in 1 .. Len(store.inserted), j \in 1 .. Len(store.inserted) :
                 i < j => ~RankedBefore(store.inserted[j], store.inserted[i])
          /\ topScores(store.entries_) = TopK(store.inserted)
    /\ store.op.name = "ScoreManager" =>
          ScoresOf(AddAll(<<40, 90, 10, 70, 20, 50, 80>>, store.entries_))
              = <<90, 80, 70, 50, 40>>

\* a sixth entry that went to the head of a full leaderboard and pushed an entry out
LeaderboardTopKWitness ==
    /\ store.sinceEmpty /\ store.op.name = "addScore"
    /\ store.op.held = kMaxEntries /\ store.adds = kMaxEntries + 1
    /\ store.entries_[2].score < store.entries_[1].score
    /\ store.inserted[kMaxEntries + 1].playerName
           \notin {store.entries_[i].playerName : i \in 1 .. Len(store.entries_)}

\* C14  Leaderboard size bound: after any sequence of addScore and load calls the
\* store holds at most 5 entries.
LeaderboardSizeBound == Len(store.entries_) <= kMaxEntries

\* a load of a file of more than five entries
LeaderboardSizeBoundWitness ==
    /\ store.op.name = "load" /\ store.op.ok /\ WellShaped(store.file)
    /\ Len(KeptRanked(store.file.text.val["scores"].val, <<>>)) > kMaxEntries
    /\ Len(store.entries_) = kMaxEntries

\* C15  Leaderboard order: after every addScore and every successful load, of two
\* consecutive entries the earlier has the greater score, or the same score and a
\* timestamp string greater than or equal to the later one's.
LeaderboardOrder ==
    \A i \in 1 .. (Len(store.entries_) - 1) :
        LET earlier == store.entries_[i]
            later == store.entries_[i + 1]
        IN  \/ earlier.score > later.score
            \/ /\ earlier.score = later.score
               /\ \/ StringGreater(earlier.playedAtUtc, later.playedAtUtc)
                  \/ earlier.playedAtUtc = later.playedAtUtc

\* a leaderboard with two entries of one score and timestamp, and two of one score of
\* which the later's timestamp is the beginning of the earlier's
LeaderboardOrderWitness ==
    /\ store.op.name \in {"addScore", "load"}
    /\ \E i \in 1 .. (Len(store.entries_) - 1) :
           /\ store.entries_[i].score = store.entries_[i + 1].score
           /\ store.entries_[i].playedAtUtc = store.entries_[i + 1].playedAtUtc
    /\ \E i \in 1 .. (Len(store.entries_) - 1) :
           /\ store.entries_[i].score = store.entries_[i + 1].score
           /\ store.entries_[i].playedAtUtc = T1
           /\ store.entries_[i + 1].playedAtUtc = T0

\* C16  Save/load round trip: when save() succeeded, load() on the same file succeeds
\* and yields the entries that were saved: the same scores, timestamps and player
\* names in the same order.
SaveLoadRoundTrip ==
    (store.op.name = "load" /\ store.saved # <<>>) =>
        /\ store.op.ok
        /\ store.entries_ = store.saved[1]

\* a load that brought back a saved leaderboard after the store had gone on to other
\* entries, with two entries that tie in the order they were saved in
SaveLoadRoundTripWitness ==
    /\ store.op.name = "load" /\ store.saved # <<>>
    /\ store.op.held > Len(store.entries_)
    /\ \E i \in 1 .. (Len(store.entries_) - 1) :
           /\ store.entries_[i].playerName = Oyuncu
           /\ store.entries_[i + 1].playerName = "Aylin"

\* C17  Load outcomes: load() on a missing file returns success with an empty list;
\* on a file that cannot be parsed, or whose top level is no object with an array
\* "scores", it returns failure with an empty list, whatever the store held.
LoadOutcomes ==
    store.op.name = "load" =>
        /\ store.file.state = "missing" => store.op.ok /\ store.entries_ = <<>>
        /\ (store.file.state = "present" /\ ~WellShaped(store.file)) =>
               ~store.op.ok /\ store.entries_ = <<>>

\* a failed load of a file of another shape by a store that held an entry
LoadOutcomesWitness ==
    /\ store.op.name = "load" /\ ~store.op.ok /\ store.op.held > 0
    /\ store.file.state = "present" /\ store.file.text.kind = "object"
    /\ store.entries_ = <<>>

\* C18  Entry-level tolerance on load: an entry without an integer score or a string
\* timestamp is skipped, an entry without a player name is kept as "Oyuncu", and the
\* kept entries are sorted and trimmed: the load yields their first five in
\* leaderboard order.
EntryTolerance ==
    (store.op.name = "load" /\ WellShaped(store.file)) =>
        /\ store.op.ok
        /\ store.entries_ = TopK(KeptRanked(store.file.text.val["scores"].val, <<>>))

\* a load of a file with more than five entries, out of order, some skipped, some
\* kept under the placeholder name
EntryToleranceWitness ==
    /\ store.op.name = "load" /\ store.file = LongFile
    /\ Len(store.entries_) = kMaxEntries
    /\ \E i \in 1 .. kMaxEntries : store.entries_[i].playerName = Oyuncu
    /\ ScoresOf(store.entries_) = <<90, 90, 90, 70, 40>>

\* C19  bestScore() returns 0 when the store is empty and otherwise the score of the
\* first entry, which is the maximum over the stored entries.
BestScoreIsMaximum ==
    /\ store.entries_ = <<>> => store.best = 0
    /\ store.entries_ # <<>> =>
          /\ store.best = store.entries_[1].score
          /\ \A i \in 1 .. Len(store.entries_) : store.entries_[i].score <= store.best

\* a leaderboard of several scores
BestScoreIsMaximumWitness ==
    /\ Len(store.entries_) >= 3
    /\ store.best = 90
    /\ store.entries_[Len(store.entries_)].score = 40

---------------------------------------------------------------------------
\* C20  Bounded sampler range: for every upper bound n > 0 and every state of the
\* generator nextBounded returns r with 0 <= r < n; for n = 0 it returns 0 and does
\* not draw from the generator.
SamplerRange ==
    sampler.called =>
        /\ sampler.upperExclusive > 0 =>
               sampler.value >= 0 /\ sampler.value < sampler.upperExclusive
        /\ sampler.upperExclusive = 0 => sampler.value = 0 /\ ~sampler.drew

\* a call that returned the greatest value of a range that does not divide the
\* generator's, and so rejected raw values
SamplerRangeWitness ==
    /\ sampler.called /\ sampler.drew
    /\ RngRange % sampler.upperExclusive # 0
    /\ sampler.value = sampler.upperExclusive - 1

---------------------------------------------------------------------------
\* the k-th raw value the generator in state s gives
RECURSIVE RawAt(_, _)
RawAt(s, k) == IF k = 0 THEN s ELSE RngStep(RawAt(s, k - 1))

\* C21  No modulo bias: with bucketSize = RANGE div n and rejectionLimit =
\* bucketSize * n, every raw value >= rejectionLimit is discarded and redrawn, the
\* value returned is the first accepted raw value div bucketSize, and each result in
\* [0, n) is produced by exactly bucketSize raw values.
SamplerUnbiased ==
    (sampler.called /\ sampler.upperExclusive > 0) =>
        LET n == sampler.upperExclusive
            bucketSize == RngRange \div n
            rejectionLimit == bucketSize * n
        IN  /\ \E k \in 1 .. RngRange :
                   /\ RawAt(sampler.from, k) = sampler.rng
                   /\ sampler.rng < rejectionLimit
                   /\ \A j \in 1 .. (k - 1) : RawAt(sampler.from, j) >= rejectionLimit
            /\ sampler.value = sampler.rng \div bucketSize
            /\ \A r \in 0 .. (n - 1) :
                   Cardinality({s \in 0 .. (RngRange - 1) :
                                   /\ nextBounded(s, n).rng = RngStep(s)
                                   /\ nextBounded(s, n).value = r}) = bucketSize

\* a call whose range does not divide the generator's and whose first raw values
\* were discarded
SamplerUnbiasedWitness ==
    /\ sampler.called /\ sampler.upperExclusive > 0
    /\ RngRange % sampler.upperExclusive # 0
    /\ RngStep(sampler.from) # sampler.rng
    /\ RngStep(RngStep(sampler.from)) # sampler.rng

---------------------------------------------------------------------------
\* the cells in which two grids differ
DiffCells(g, h) == {p \in Idx \X Idx : g[p[1]][p[2]] # h[p[1]][p[2]]}

\* what one spawn does to engine e: sp is the engine after it and the tile returned
OneSpawn(e, sp) ==
    /\ Len(sp.tile) = 1
    /\ LET t == sp.tile[1]
       IN  /\ DiffCells(e.grid_, sp.game.grid_) = {<<t.row, t.col>>}
           /\ e.grid_[t.row][t.col] = 0
           /\ t.value \in {2, 4}
           /\ sp.game.grid_[t.row][t.col] = t.value
    /\ sp.game.score_ = e.score_

\* C23  Spawn effect: a spawn on a grid with an empty cell changes exactly one cell,
\* which was empty, to 2 or 4, leaves the other cells and the score unchanged, and
\* returns that cell and its value; a moved applyMove with spawnOnMove = true spawns
\* once, after the four lines are written, and no other applyMove spawns.
SpawnEffect ==
    /\ EmptyCells(game.grid_) # <<>> => OneSpawn(game, spawnTile(game))
    /\ op.name = "applyMove" =>
           IF call.result.moved /\ op.spawnOnMove
           THEN OneSpawn([pre EXCEPT !.grid_ = call.mid,
                                     !.score_ = @ + call.result.scoreDelta],
                         [game |-> game, tile |-> call.result.spawnedTile])
           ELSE /\ game.grid_ = call.mid
                /\ call.result.spawnedTile = NoTile

\* a move that merged tiles and spawned a 4
SpawnEffectWitness ==
    /\ op.name = "applyMove" /\ op.spawnOnMove
    /\ call.result.moved /\ call.result.scoreDelta > 0
    /\ call.result.spawnedTile # NoTile
    /\ call.result.spawnedTile[1].value = 4

---------------------------------------------------------------------------
\* the empty cells of a grid in row-major order, counted one by one
RECURSIVE RowMajorEmpty(_, _)
RowMajorEmpty(grid, k) ==
    IF k >= kGridSize * kGridSize
    THEN <<>>
    ELSE LET r == k \div kGridSize
             c == k % kGridSize
         IN  (IF grid[r][c] = 0 THEN <<<<r, c>>>> ELSE <<>>) \o RowMajorEmpty(grid, k + 1)

\* the spawn the claim describes, on a grid with k > 0 empty cells and a generator
\* in state rng: i drawn from [0, k), then v from [0, 10)
SelectedSpawn(grid, rng) ==
    LET cells == RowMajorEmpty(grid, 0)
        i == nextBounded(rng, Len(cells))
        v == nextBounded(i.rng, 10)
    IN  [row |-> cells[i.value + 1][1], col |-> cells[i.value + 1][2],
         value |-> IF v.value = 0 THEN 4 ELSE 2, rng |-> v.rng]

\* C24  Spawn selection: with k > 0 empty cells in row-major order a spawn draws i
\* from [0, k) and then v from [0, 10), writes to the i-th empty cell, and the tile is
\* 4 when v = 0 and 2 otherwise.
SpawnSelection ==
    /\ (op.name = "applyMove" /\ op.spawnOnMove /\ call.result.moved) =>
           LET sel == SelectedSpawn(call.mid, pre.rng_)
           IN  /\ call.result.spawnedTile =
                      <<[row |-> sel.row, col |-> sel.col, value |-> sel.value]>>
               /\ game.grid_ = [call.mid EXCEPT ![sel.row][sel.col] = sel.value]
               /\ game.rng_ = sel.rng
    /\ op.name = "reset" =>
           LET first == SelectedSpawn(EmptyGrid, RngSeed(op.seed))
               one == [EmptyGrid EXCEPT ![first.row][first.col] = first.value]
               second == SelectedSpawn(one, first.rng)
           IN  /\ game.grid_ = [one EXCEPT ![second.row][second.col] = second.value]
               /\ game.rng_ = second.rng

\* a move that spawned a 4 in an empty cell that is neither the first nor the last
SpawnSelectionWitness ==
    /\ op.name = "applyMove" /\ op.spawnOnMove /\ call.result.moved
    /\ LET cells == EmptyCells(call.mid)
           t == call.result.spawnedTile[1]
       IN  /\ Len(cells) > 2
           /\ t.value = 4
           /\ <<t.row, t.col>> # cells[1]
           /\ <<t.row, t.col>> # cells[Len(cells)]

---------------------------------------------------------------------------
\* the vertical mirror of a grid: its rows reversed
mirrorVertical(grid) == [r \in Idx |-> grid[kGridSize - 1 - r]]

\* Up on grid G and Down on its vertical mirror agree
UpDownAgree(e) ==
    LET up == applyMove(e, "Up", FALSE)
        down == applyMove([e EXCEPT !.grid_ = mirrorVertical(e.grid_)], "Down", FALSE)
    IN  /\ up.result.moved = down.result.moved
        /\ up.result.scoreDelta = down.result.scoreDelta
        /\ up.game.grid_ = mirrorVertical(down.game.grid_)

\* C25  Mirror symmetry Up/Down: applyMove(Up, false) on a grid G and
\* applyMove(Down, false) on the vertical mirror of G (rows reversed) return the same
\* moved and scoreDelta, and the resulting grids are vertical mirrors of each other.
MirrorSymmetryUpDown ==
    /\ UpDownAgree(game)
    /\ (Moved /\ op.dir = "Up" /\ ~op.spawnOnMove) =>
           /\ UpDownAgree(pre)
           /\ call = applyMove(pre, "Up", FALSE)

\* a move Up without spawn that merged tiles of a grid that is not its own mirror
MirrorSymmetryUpDownWitness ==
    /\ Moved /\ op.dir = "Up" /\ ~op.spawnOnMove
    /\ result.scoreDelta > 0
    /\ pre.grid_ # mirrorVertical(pre.grid_)
    /\ game.grid_ # mirrorVertical(game.grid_)

---------------------------------------------------------------------------
\* scores given to loadState beside that of the fixtures
LoadScores == {-1, 0, LoadScore}

\* the engine of the fixtures before loadState: as reset(0) left it
Unloaded == reset([grid_ |-> EmptyGrid, score_ |-> 0, rng_ |-> 0, seed_ |-> 0], 0)

\* C26  loadState(grid, score) sets the grid and the score to exactly the given
\* values, for any values, and leaves the generator as it was: the tiles later moves
\* spawn are those the engine would have drawn next, had loadState not been called,
\* on a grid with the same empty cells.
LoadStateFrame ==
    /\ Fresh =>
           \A grid \in LoadGrids, score \in LoadScores :
               LET e == loadState(game, grid, score)
               IN  e = [grid_ |-> grid, score_ |-> score, rng_ |-> game.rng_,
                        seed_ |-> game.seed_]
    /\ op.name = "loadState" =>
           /\ game.grid_ \in LoadGrids
           /\ game.score_ = LoadScore
           /\ game.rng_ = Unloaded.rng_
    /\ (loaded /\ Moved /\ moves = 1 /\ op.spawnOnMove /\ result.moved) =>
           LET sp == spawnTile([Unloaded EXCEPT !.grid_ = mid])
           IN  /\ result.spawnedTile = sp.tile
               /\ game.grid_ = sp.game.grid_
               /\ game.rng_ = sp.game.rng_

\* a move after loadState of a grid that is no grid of a game, which spawned a tile
LoadStateFrameWitness ==
    /\ loaded /\ Moved /\ moves = 1 /\ op.spawnOnMove /\ result.moved
    /\ result.spawnedTile # NoTile
    /\ pre.grid_ # Unloaded.grid_
    /\ \E r \in Idx : pre.grid_[r] = OddLine
    /\ pre.score_ = LoadScore

---------------------------------------------------------------------------
\* C27  Termination: every operation of the engine returns after a bounded amount of
\* work; the redraw loop of nextBounded, which reset and every moved applyMove with
\* spawn reach through spawnTile, always ends: it ends within as many draws as the
\* generator has values, with the result of nextBounded.
SamplerTerminates ==
    /\ [](sampler.draws <= RngRange)
    /\ [](sampler.pc = "returned" =>
             LET r == nextBounded(sampler.from, sampler.upperExclusive)
             IN  sampler.value = r.value /\ sampler.rng = r.rng)
    /\ (sampler.pc = "loop") ~> (sampler.pc = "returned")

\* a call that returned after it discarded a raw value
SamplerTerminatesWitness ==
    /\ sampler.pc = "returned"
    /\ sampler.draws >= 2
    /\ sampler.upperExclusive > 1

---------------------------------------------------------------------------
\* no direction moves the grid of engine e
NoLegalMove(e) == \A dir \in Directions : ~applyMove(e, dir, FALSE).result.moved

\* C28  Game over means no legal move, as amended: for every grid with at least one
\* tile, whose cells are 0 or positive, isGameOver() is true if and only if
\* applyMove(dir, false) returns moved = false for each of the four directions.
GameOverNoLegalMove ==
    game.grid_ # EmptyGrid => (isGameOver(game.grid_) <=> NoLegalMove(game))

\* a loaded board, not the dead board of the tests, on which the game is over
GameOverNoLegalMoveWitness ==
    /\ op.name = "loadState"
    /\ game.grid_ # DeadGrid
    /\ isGameOver(game.grid_) /\ NoLegalMove(game)

\* C28 as claimed: the equivalence holds for every grid whose cells are 0 or
\* positive, the grid without tiles among them.
GameOverNoLegalMoveAnyGrid ==
    isGameOver(game.grid_) <=> NoLegalMove(game)

---------------------------------------------------------------------------
\* the stored entries that tie with entry e: same score, same timestamp string
Ties(entries, e) ==
    {i \in 1 .. Len(entries) :
        entries[i].score = e.score /\ entries[i].playedAtUtc = e.playedAtUtc}

\* the greatest of a set of indices
Last(indices) == CHOOSE i \in indices : \A j \in indices : j <= i

\* C30  Leaderboard ties are stable: an entry added with the same score and the same
\* timestamp string as stored entries is placed after all of them; when the store
\* holds 5 entries and the new entry ties with the last one, the new entry is the one
\* dropped.
TiesStable ==
    \A c \in 1 .. Len(AddCalls), now \in Clock :
        LET e == InsertedEntry(AddCalls[c], now)
            ties == Ties(store.entries_, e)
            added == addScore(store.entries_, AddCalls[c].score, AddCalls[c].playerName,
                              AddCalls[c].playedAtUtc, now)
        IN  ties # {} =>
                LET last == Last(ties)
                IN  /\ added = TopK(SubSeq(store.entries_, 1, last) \o <<e>>
                                    \o SubSeq(store.entries_, last + 1,
                                              Len(store.entries_)))
                    /\ (Len(store.entries_) = kMaxEntries /\ last = kMaxEntries) =>
                           added = store.entries_

\* a store of five entries given an entry of another player that ties with the last
\* of them, which is still the last
TiesStableWitness ==
    /\ store.op.name = "addScore" /\ store.op.held = kMaxEntries
    /\ Len(store.entries_) = kMaxEntries
    /\ Len(store.inserted) > kMaxEntries
    /\ Ties(store.entries_, store.inserted[kMaxEntries + 1]) # {}
    /\ Last(Ties(store.entries_, store.inserted[kMaxEntries + 1])) = kMaxEntries
    /\ store.inserted[kMaxEntries + 1].playerName = Oyuncu
    /\ store.entries_[kMaxEntries].playerName = "Aylin"

---------------------------------------------------------------------------
\* C22  Final score hand-off: whenever a game being played has reached a terminal
\* state, its final score is passed to ScoreManager::addScore before that game is
\* reset or the Playing scene is left, whatever the user presses in the meantime.
FinalScoreHandedOff ==
    [][(/\ app.open /\ app.scene = "Playing" /\ isGameOver(game.grid_)
        /\ (app'.scene # "Playing" \/ app'.command = "RestartGame"))
           => (app.finalScorePersisted \/ store'.adds = store.adds + 1)]_vars

\* C29  Final score recorded at most once per game: between two consecutive
\* StartGame/RestartGame commands the application calls ScoreManager::addScore at
\* most once, however many passes of the loop observe the terminal state.
RecordedAtMostOnce ==
    /\ app.recorded <= 1
    /\ app.recorded = 1 <=> app.finalScorePersisted
    /\ store.adds >= app.recorded

\* the game-over scene of a game whose score was recorded, observed by a later pass
RecordedAtMostOnceWitness ==
    /\ app.open /\ app.scene = "GameOver" /\ isGameOver(game.grid_)
    /\ app.recorded = 1 /\ app.finalScorePersisted
    /\ store.op.name = "save" /\ ~store.op.ok
    /\ Len(store.entries_) = 1 /\ store.entries_[1].score = game.score_

=============================================================================
